---- MODULE Spec2Model ----
(***************************************************************************)
(* Model of docs/qe_apidoc.py: the two documentation-stub generators       *)
(* all_auto (flat layout) and model_tool (split layout), the command-line  *)
(* dispatch between them, and the output tree under source/ they write.    *)
(*                                                                         *)
(* Every Python string is a sequence of one-character strings, so that     *)
(* split, slicing, join, capitalize and the ordering used by list.sort     *)
(* are computed character by character, as the interpreter does.           *)
(***************************************************************************)
EXTENDS Integers, Sequences, FiniteSets, TLC

VARIABLES
    src,          \* the package tree: source directory -> its module files
    dirs,         \* output tree: the directories that exist
    files,        \* output tree: path -> content of every file that exists
    argv,         \* sys.argv of the current process
    pc,           \* position of the current process in the script
    called,       \* the generators called by the current process, in order
    exc,          \* the uncaught exception that ended the process ("" if none)
    mod_names,    \* all_auto's local list
    game_theory,  \* model_tool's local lists
    markov,
    random,
    tools,
    util,
    runs,         \* number of processes started so far
    dirs0,        \* history: dirs when the current process started
    files0,       \* history: files when the current process started
    rerun         \* history: the previous process was a completed model_tool
                  \* run and the package tree has not changed since

vars == <<src, dirs, files, argv, pc, called, exc, mod_names, game_theory,
          markov, random, tools, util, runs, dirs0, files0, rerun>>

locals == <<mod_names, game_theory, markov, random, tools, util>>

history == <<dirs0, files0, rerun>>

(***************************************************************************)
(* Bounds of the model.                                                    *)
(***************************************************************************)
MaxRuns == 2        \* processes started in one behaviour

MaxSrcFiles == 3    \* files in the whole package tree

(***************************************************************************)
(* Characters and str primitives.                                          *)
(***************************************************************************)
Lower == <<"a","b","c","d","e","f","g","h","i","j","k","l","m",
           "n","o","p","q","r","s","t","u","v","w","x","y","z">>

Upper == <<"A","B","C","D","E","F","G","H","I","J","K","L","M",
           "N","O","P","Q","R","S","T","U","V","W","X","Y","Z">>

Digits == <<"0","1","2","3","4","5","6","7","8","9">>

Range(s) == {s[i] : i \in 1..Len(s)}

IndexIn(c, s) == CHOOSE i \in 1..Len(s) : s[i] = c

LowerCase == Range(Lower)

UpperCase == Range(Upper)

DigitChars == Range(Digits)

\* ord(c): the code point of a character
Ord(c) ==
    IF c \in LowerCase THEN 96 + IndexIn(c, Lower)
    ELSE IF c \in UpperCase THEN 64 + IndexIn(c, Upper)
    ELSE IF c \in DigitChars THEN 47 + IndexIn(c, Digits)
    ELSE CASE c = "\n" -> 10
           [] c = " "  -> 32
           [] c = "."  -> 46
           [] c = "/"  -> 47
           [] c = "="  -> 61
           [] c = "_"  -> 95

\* a < b on str: lexicographic by code point, a proper prefix is smaller
StrLess(a, b) ==
    \E i \in 1..Len(b) :
        /\ \A j \in 1..(i - 1) : j <= Len(a) /\ a[j] = b[j]
        /\ (i > Len(a) \/ Ord(a[i]) < Ord(b[i]))

\* c.upper() and c.lower() of one character
ToUpper(c) == IF c \in LowerCase THEN Upper[IndexIn(c, Lower)] ELSE c

ToLower(c) == IF c \in UpperCase THEN Lower[IndexIn(c, Upper)] ELSE c

\* str.capitalize(): first character upper-cased, all the others lower-cased
Capitalize(s) ==
    [i \in 1..Len(s) |-> IF i = 1 THEN ToUpper(s[i]) ELSE ToLower(s[i])]

\* c * n
Repeat(c, n) == [i \in 1..n |-> c]

\* sep.join(list)
RECURSIVE Join(_, _)
Join(sep, list) ==
    IF list = <<>> THEN <<>>
    ELSE IF Len(list) = 1 THEN list[1]
    ELSE list[1] \o sep \o Join(sep, Tail(list))

\* s.split(c), c one character
RECURSIVE Split(_, _)
Split(s, c) ==
    IF \A i \in 1..Len(s) : s[i] # c THEN <<s>>
    ELSE LET k == CHOOSE i \in 1..Len(s) :
                      s[i] = c /\ \A j \in 1..(i - 1) : s[j] # c
         IN  <<SubSeq(s, 1, k - 1)>> \o Split(SubSeq(s, k + 1, Len(s)), c)

\* x.split('/')[-1]
SplitLast(x) == LET parts == Split(x, "/") IN parts[Len(parts)]

\* x[:-3]
DropLast3(x) == SubSeq(x, 1, Len(x) - 3)

\* x.split(".")[0]
SplitFirstDot(x) == Split(x, ".")[1]

\* x in list
InList(x, list) == \E i \in 1..Len(list) : list[i] = x

\* variant: a removal that removes nothing
ListRemoveKeepsAll(list, x) == list

\* the list that list.remove(x) leaves when it returns: the first x is gone
\* (a list without x is left as it is, and the call raises: RemoveRaises)
ListRemove(list, x) ==
    IF ~InList(x, list) THEN list
    ELSE LET k == CHOOSE i \in 1..Len(list) :
                      list[i] = x /\ \A j \in 1..(i - 1) : list[j] # x
         IN  SubSeq(list, 1, k - 1) \o SubSeq(list, k + 1, Len(list))

\* variant: a sort that leaves the list in the order it came
SortListKeepsOrder(list) == list

\* list.sort(): ascending by <, equal elements keep their order
RECURSIVE SortList(_)
SortList(list) ==
    IF list = <<>> THEN <<>>
    ELSE LET n    == Len(list)
             x    == list[n]
             rest == SortList(SubSeq(list, 1, n - 1))
             k    == Cardinality({i \in 1..Len(rest) : ~StrLess(x, rest[i])})
         IN  SubSeq(rest, 1, k) \o <<x>> \o SubSeq(rest, k + 1, Len(rest))

(***************************************************************************)
(* String constants of the script.                                         *)
(***************************************************************************)
SINGLE == <<"s","i","n","g","l","e">>

VERSION == <<"v","e","r","s","i","o","n">>

SOURCE == <<"s","o","u","r","c","e">>

MODULES == <<"m","o","d","u","l","e","s">>

GAME_THEORY == <<"g","a","m","e","_","t","h","e","o","r","y">>

MARKOV == <<"m","a","r","k","o","v">>

RANDOM == <<"r","a","n","d","o","m">>

TOOLS == <<"t","o","o","l","s">>

UTIL == <<"u","t","i","l">>

GAME_THEORY_TITLE == <<"G","a","m","e"," ","T","h","e","o","r","y">>

UTILITIES_TITLE == <<"U","t","i","l","i","t","i","e","s">>

DOT_PY == <<".","p","y">>

DOT_RST == <<".","r","s","t">>

VERSION_PY == VERSION \o DOT_PY

INDEX_RST == <<"i","n","d","e","x">> \o DOT_RST

SLASH == <<"/">>

TOC_SEP == <<"\n"," "," "," ">>

QUANTECON == <<".",".","/","q","u","a","n","t","e","c","o","n","/">>

\* the folder names, in the order of the loops at lines 217 and 273
Folders == <<GAME_THEORY, MARKOV, RANDOM, TOOLS, UTIL>>

\* the directory each glob of model_tool lists
SrcDir(folder) ==
    IF folder = TOOLS THEN QUANTECON ELSE QUANTECON \o folder \o SLASH

SrcDirs == {SrcDir(Folders[i]) : i \in 1..Len(Folders)}

(***************************************************************************)
(* The file system calls.                                                  *)
(***************************************************************************)
\* fnmatch of a file name against "[a-z0-9]*.py"
Matches(name) ==
    /\ Len(name) >= 4
    /\ name[1] \in LowerCase \cup DigitChars
    /\ SubSeq(name, Len(name) - 2, Len(name)) = DOT_PY

INIT_PY == <<"_","_","i","n","i","t","_","_">> \o DOT_PY

\* the entries of a package directory: its module files and __init__.py
\* (for the globs a missing or empty directory is like one with no module)
Listing(dir) == src[dir] \cup {INIT_PY}

\* glob(dir + "[a-z0-9]*.py"): the matching paths, as a set; every call
\* returns them in some order of the directory listing
Glob(dir) == {dir \o name : name \in {n \in Listing(dir) : Matches(n)}}

Orderings(S) ==
    {s \in [1..Cardinality(S) -> S] :
        \A i, j \in 1..Cardinality(S) : i # j => s[i] # s[j]}

\* os.path.join(a, b)
PathJoin(a, b) == a \o SLASH \o b

\* source_join(f_name)
source_join(f_name) == PathJoin(SOURCE, f_name)

\* os.path.exists(path)
Exists(path) == path \in dirs \/ path \in DOMAIN files

\* os.makedirs(path): the directory and every missing parent
Makedirs(path) ==
    LET parts == Split(path, "/")
    IN  {Join(SLASH, SubSeq(parts, 1, k)) : k \in 1..Len(parts)}

\* template.format(...): the template and the values substituted into it
Doc(template, name, equals, body) ==
    [template |-> template, name |-> name, equals |-> equals, files |-> body]

\* a file opened with mode "w" and not written to
EmptyFile == Doc("", <<>>, <<>>, <<>>)

(***************************************************************************)
(* The source trees and command lines of the model.                        *)
(***************************************************************************)
AA_PY == <<"a","a">> \o DOT_PY

AB_PY == <<"a","B">> \o DOT_PY

RootFiles == {VERSION_PY, AA_PY, AB_PY}

SubFiles == {AA_PY, AB_PY}

FilesOf(dir) == IF dir = QUANTECON THEN RootFiles ELSE SubFiles

TreeSize(t) ==
    LET RECURSIVE Sum(_)
        Sum(D) == IF D = {} THEN 0
                  ELSE LET d == CHOOSE x \in D : TRUE
                       IN  Cardinality(t[d]) + Sum(D \ {d})
    IN  Sum(SrcDirs)

Trees ==
    {t \in {[d \in SrcDirs |->
                IF d = QUANTECON THEN r
                ELSE IF d = SrcDir(GAME_THEORY) THEN g
                ELSE IF d = SrcDir(MARKOV) THEN m
                ELSE IF d = SrcDir(RANDOM) THEN n
                ELSE u] :
             r \in SUBSET RootFiles, g \in SUBSET SubFiles,
             m \in SUBSET SubFiles, n \in SUBSET SubFiles,
             u \in SUBSET SubFiles} :
        TreeSize(t) <= MaxSrcFiles}

PROGRAM == <<"q","e","_","a","p","i","d","o","c">> \o DOT_PY

FOO_BAR == <<"f","o","o","_","b","a","r">>

\* the three command lines of the module docstring, and one with the
\* token after another argument
CommandLines ==
    {<<PROGRAM>>, <<PROGRAM, FOO_BAR>>, <<PROGRAM, SINGLE>>,
     <<PROGRAM, FOO_BAR, SINGLE>>}

(***************************************************************************)
(* Initial state: a package tree, an empty output tree, no process.        *)
(***************************************************************************)
Init ==
    /\ src \in Trees
    /\ dirs = {}
    /\ files = <<>>
    /\ argv = <<>>
    /\ pc = "idle"
    /\ called = <<>>
    /\ exc = ""
    /\ mod_names = <<>>
    /\ game_theory = <<>>
    /\ markov = <<>>
    /\ random = <<>>
    /\ tools = <<>>
    /\ util = <<>>
    /\ runs = 0
    /\ dirs0 = {}
    /\ files0 = <<>>
    /\ rerun = FALSE

(***************************************************************************)
(* The environment: a process is started, or the package tree is edited    *)
(* between two processes.                                                  *)
(***************************************************************************)
Stopped == pc \in {"idle", "done", "aborted"}

\* $ python qe_apidoc.py [arguments]
Invoke(args) ==
    /\ Stopped
    /\ runs < MaxRuns
    /\ runs' = runs + 1
    /\ argv' = args
    /\ pc' = "main"
    /\ called' = <<>>
    /\ exc' = ""
    /\ mod_names' = <<>>
    /\ game_theory' = <<>>
    /\ markov' = <<>>
    /\ random' = <<>>
    /\ tools' = <<>>
    /\ util' = <<>>
    /\ dirs0' = dirs
    /\ files0' = files
    /\ rerun' = (pc = "done" /\ called = <<"model_tool">>)
    /\ UNCHANGED <<src, dirs, files>>

\* a file of the package is added or deleted after a process has ended;
\* nothing of that process is left but the output tree
EditSource(dir, name) ==
    /\ pc \in {"done", "aborted"}
    /\ runs < MaxRuns
    /\ src' = [src EXCEPT ![dir] =
                  IF name \in @ THEN @ \ {name} ELSE @ \cup {name}]
    /\ TreeSize(src') <= MaxSrcFiles
    /\ pc' = "idle"
    /\ argv' = <<>>
    /\ called' = <<>>
    /\ exc' = ""
    /\ mod_names' = <<>>
    /\ game_theory' = <<>>
    /\ markov' = <<>>
    /\ random' = <<>>
    /\ tools' = <<>>
    /\ util' = <<>>
    /\ dirs0' = dirs
    /\ files0' = files
    /\ rerun' = FALSE
    /\ UNCHANGED <<dirs, files, runs>>

(***************************************************************************)
(* __main__ (lines 285-289).                                               *)
(***************************************************************************)
\* variant: only the first argument is looked at
SingleIsFirstArgument(args) == Len(args) >= 2 /\ args[2] = SINGLE

\* "single" in sys.argv[1:]
SingleRequested(args) == InList(SINGLE, Tail(args))

Main ==
    /\ pc = "main"
    /\ IF SingleRequested(argv)
       THEN called' = Append(called, "all_auto") /\ pc' = "all_auto"
       ELSE called' = Append(called, "model_tool") /\ pc' = "model_tool"
    /\ UNCHANGED <<src, dirs, files, argv, exc, locals, runs, history>>

\* an uncaught exception ends the process
Raise(e) == pc' = "aborted" /\ exc' = e

(***************************************************************************)
(* all_auto (lines 161-182).                                               *)
(***************************************************************************)
\* variant: version.py is dropped from the listing
ModNamesWithoutVersion(paths) ==
    LET all == [i \in 1..Len(paths) |-> SplitLast(paths[i])]
        Kept(n) == n # VERSION_PY
    IN  SelectSeq(all, Kept)

\* line 164: the file name of every path
ModNames(paths) == [i \in 1..Len(paths) |-> SplitLast(paths[i])]

\* variant: the stubs go to source/tools/
ModulePathInTools(name) == PathJoin(PathJoin(SOURCE, TOOLS), name \o DOT_RST)

\* line 173
ModulePath(name) == PathJoin(PathJoin(SOURCE, MODULES), name \o DOT_RST)

\* lines 179-180
Generated(names) ==
    Join(TOC_SEP,
         [i \in 1..Len(names) |->
             MODULES \o SLASH \o SplitFirstDot(names[i])])

\* lines 163-164
AllAutoList ==
    /\ pc = "all_auto"
    /\ \E paths \in Orderings(Glob(QUANTECON)) : mod_names' = ModNames(paths)
    /\ pc' = "all_auto_makedirs"
    /\ UNCHANGED <<src, dirs, files, argv, called, exc, game_theory, markov,
                   random, tools, util, runs, history>>

\* lines 167-168
AllAutoMakedirs ==
    /\ pc = "all_auto_makedirs"
    /\ dirs' = IF Exists(source_join(MODULES)) THEN dirs
               ELSE dirs \cup Makedirs(source_join(MODULES))
    /\ pc' = "all_auto_stubs"
    /\ UNCHANGED <<src, files, argv, called, exc, locals, runs, history>>

\* lines 171-175: the first iteration opens the stub for writing and calls
\* gen_module, a name the script never defines, so it raises NameError
AllAutoStubs ==
    /\ pc = "all_auto_stubs"
    /\ IF mod_names = <<>>
       THEN /\ pc' = "all_auto_index"
            /\ UNCHANGED <<files, exc>>
       ELSE /\ files' = (ModulePath(SplitFirstDot(mod_names[1])) :> EmptyFile)
                            @@ files
            /\ Raise("NameError")
    /\ UNCHANGED <<src, dirs, argv, called, locals, runs, history>>

\* lines 178-182
AllAutoIndex ==
    /\ pc = "all_auto_index"
    /\ files' = (source_join(INDEX_RST) :>
                    Doc("all_index_template", <<>>, <<>>, Generated(mod_names)))
                    @@ files
    /\ pc' = "done"
    /\ UNCHANGED <<src, dirs, argv, called, exc, locals, runs, history>>

(***************************************************************************)
(* model_tool (lines 185-283).                                             *)
(***************************************************************************)
\* lines 188, 194, 200, 206, 213: the module name of every path
Names(paths) == [i \in 1..Len(paths) |-> DropLast3(SplitLast(paths[i]))]

\* variant: the names are left in listing order
ListedUnsorted(paths) == Names(paths)

\* lines 187-190, 193-196, 199-202, 212-215: glob, strip, sort
Listed(paths) == SortList(Names(paths))

\* variant: a removal that tolerates a missing element
RemoveNeverRaises(list, x) == FALSE

\* line 208 raises ValueError when the list has no such element
RemoveRaises(list, x) == ~InList(x, list)

\* lines 186-215: the five listings; line 208 ends the run when the root
\* has no "version", with the first three lists made and util not yet
ListModules ==
    /\ pc = "model_tool"
    /\ \E gt_paths \in Orderings(Glob(SrcDir(GAME_THEORY))),
          mark_paths \in Orderings(Glob(SrcDir(MARKOV))),
          rand_paths \in Orderings(Glob(SrcDir(RANDOM))),
          tool_paths \in Orderings(Glob(SrcDir(TOOLS))),
          util_paths \in Orderings(Glob(SrcDir(UTIL))) :
           /\ game_theory' = Listed(gt_paths)
           /\ markov' = Listed(mark_paths)
           /\ random' = Listed(rand_paths)
           /\ IF RemoveRaises(Names(tool_paths), VERSION)
              THEN /\ tools' = Names(tool_paths)
                   /\ util' = util
                   /\ Raise("ValueError")
              ELSE /\ tools' = SortList(ListRemove(Names(tool_paths), VERSION))
                   /\ util' = Listed(util_paths)
                   /\ pc' = "makedirs"
                   /\ UNCHANGED exc
    /\ UNCHANGED <<src, dirs, files, argv, called, mod_names, runs, history>>

\* lines 217-219
MakeFolders ==
    /\ pc = "makedirs"
    /\ dirs' = dirs \cup
           UNION {Makedirs(source_join(Folders[i])) :
                     i \in {j \in 1..Len(Folders) :
                               ~Exists(source_join(Folders[j]))}}
    /\ pc' = "write_modules"
    /\ UNCHANGED <<src, files, argv, called, exc, locals, runs, history>>

\* lines 223, 230, 237, 244, 251
StubPath(folder, mod) == PathJoin(PathJoin(SOURCE, folder), mod \o DOT_RST)

\* lines 225-226 and the like: the stub of one module
Stub(template, mod) == Doc(template, mod, Repeat("=", Len(mod)), <<>>)

\* one of the five loops: the files it opens and writes, a later module
\* overwriting an earlier one of the same path
WriteStubs(folder, template, mods) ==
    [p \in {StubPath(folder, mods[i]) : i \in 1..Len(mods)} |->
        Stub(template,
             mods[CHOOSE i \in 1..Len(mods) :
                      /\ StubPath(folder, mods[i]) = p
                      /\ \A j \in (i + 1)..Len(mods) :
                             StubPath(folder, mods[j]) # p])]

\* lines 221-254: the five stub loops
WriteModules ==
    /\ pc = "write_modules"
    /\ files' = WriteStubs(UTIL, "util_module_template", util) @@
                WriteStubs(TOOLS, "module_template", tools) @@
                WriteStubs(RANDOM, "random_module_template", random) @@
                WriteStubs(MARKOV, "markov_module_template", markov) @@
                WriteStubs(GAME_THEORY, "game_theory_module_template",
                           game_theory) @@
                files
    /\ pc' = "write_index"
    /\ UNCHANGED <<src, dirs, argv, called, exc, locals, runs, history>>

\* lines 257-258
WriteIndex ==
    /\ pc = "write_index"
    /\ files' = (source_join(INDEX_RST) :>
                    Doc("split_index_template", <<>>, <<>>, <<>>)) @@ files
    /\ pc' = "write_folders"
    /\ UNCHANGED <<src, dirs, argv, called, exc, locals, runs, history>>

\* lines 260-264: "<folder>/" + "\n   <folder>/".join(mods)
TocTree(folder, mods) ==
    (folder \o SLASH) \o Join(TOC_SEP \o folder \o SLASH, mods)

\* lines 266-271
toc_tree_list(folder) ==
    IF folder = GAME_THEORY THEN TocTree(GAME_THEORY, game_theory)
    ELSE IF folder = MARKOV THEN TocTree(MARKOV, markov)
    ELSE IF folder = TOOLS THEN TocTree(TOOLS, tools)
    ELSE IF folder = RANDOM THEN TocTree(RANDOM, random)
    ELSE TocTree(UTIL, util)

\* lines 275-279: the title the loop body leaves in f_name
NicerTitle(f_name) ==
    IF f_name = GAME_THEORY THEN GAME_THEORY_TITLE
    ELSE IF f_name = UTIL THEN UTILITIES_TITLE
    ELSE f_name

\* lines 280-282
FolderIndex(m_name) ==
    LET f_name == NicerTitle(m_name)
    IN  Doc("split_file_template", Capitalize(f_name),
            Repeat("=", Len(f_name)), toc_tree_list(m_name))

\* line 274
FolderIndexPath(f_name) == source_join(f_name \o DOT_RST)

\* lines 273-283
WriteFolders ==
    /\ pc = "write_folders"
    /\ files' = [p \in {FolderIndexPath(Folders[i]) : i \in 1..Len(Folders)} |->
                    FolderIndex(Folders[CHOOSE i \in 1..Len(Folders) :
                                            FolderIndexPath(Folders[i]) = p])]
                @@ files
    /\ pc' = "done"
    /\ UNCHANGED <<src, dirs, argv, called, exc, locals, runs, history>>

(***************************************************************************)
(* The specification.                                                      *)
(***************************************************************************)
Next ==
    \/ \E args \in CommandLines : Invoke(args)
    \/ \E dir \in SrcDirs : \E name \in FilesOf(dir) : EditSource(dir, name)
    \/ Main
    \/ AllAutoList
    \/ AllAutoMakedirs
    \/ AllAutoStubs
    \/ AllAutoIndex
    \/ ListModules
    \/ MakeFolders
    \/ WriteModules
    \/ WriteIndex
    \/ WriteFolders

Spec == Init /\ [][Next]_vars

(***************************************************************************)
(* Vocabulary of the properties.                                           *)
(***************************************************************************)
FlatRun == called = <<"all_auto">>

SplitRun == called = <<"model_tool">>

AllAutoPcs ==
    {"all_auto", "all_auto_makedirs", "all_auto_stubs", "all_auto_index"}

ListingPcs == {"model_tool"}

WritingPcs == {"makedirs", "write_modules", "write_index", "write_folders"}

\* the module names the package tree holds for a folder of the split layout
Discovered(folder) ==
    {DropLast3(n) : n \in {f \in Listing(SrcDir(folder)) : Matches(f)}}
        \ (IF folder = TOOLS THEN {VERSION} ELSE {})

\* model_tool's list of a folder
Members(folder) ==
    IF folder = GAME_THEORY THEN game_theory
    ELSE IF folder = MARKOV THEN markov
    ELSE IF folder = RANDOM THEN random
    ELSE IF folder = TOOLS THEN tools
    ELSE util

FolderSet == Range(Folders)

Ascending(list) == \A i \in 1..(Len(list) - 1) : StrLess(list[i], list[i + 1])

\* s.strip(" ")
Strip(s) ==
    LET inked == {i \in 1..Len(s) : s[i] # " "}
    IN  IF inked = {} THEN <<>>
        ELSE SubSeq(s, CHOOSE i \in inked : \A j \in inked : i <= j,
                       CHOOSE i \in inked : \A j \in inked : j <= i)

\* the entries of a toctree whose body is the template's "   {files}":
\* its non-blank lines, stripped
Entries(body) ==
    LET lines == Split(<<" ", " ", " ">> \o body, "\n")
        Inked(l) == l # <<>>
    IN  SelectSeq([i \in 1..Len(lines) |-> Strip(lines[i])], Inked)

\* path p lies inside source/<folder>/
Inside(p, folder) ==
    LET prefix == PathJoin(SOURCE, folder) \o SLASH
    IN  Len(p) > Len(prefix) /\ SubSeq(p, 1, Len(prefix)) = prefix

\* the files of the output tree inside source/<folder>/
StubsIn(fs, folder) == {p \in DOMAIN fs : Inside(p, folder)}

ExpectedStubs(folder) == {StubPath(folder, m) : m \in Discovered(folder)}

IndexPath == source_join(INDEX_RST)

(***************************************************************************)
(* C1: after a flat-layout run over any source tree the run has completed  *)
(* and source/index.rst holds a toctree with exactly one entry             *)
(* modules/<name> per discovered module.  The code does not satisfy this:  *)
(* with one module or more the stub loop raises NameError.                 *)
(***************************************************************************)
C1_FlatIndexListsEveryModule ==
    (FlatRun /\ pc \in {"done", "aborted"}) =>
        /\ pc = "done"
        /\ IndexPath \in DOMAIN files
        /\ files[IndexPath].template = "all_index_template"
        /\ LET entries == Entries(files[IndexPath].files)
               wanted  == {MODULES \o SLASH \o SplitFirstDot(SplitLast(p)) :
                              p \in Glob(QUANTECON)}
           IN  /\ Len(entries) = Cardinality(Glob(QUANTECON))
               /\ Range(entries) = wanted

(***************************************************************************)
(* C2: the title of <group>.rst is "Game Theory" for game_theory,          *)
(* "Utilities" for util, and "Markov", "Random", "Tools" for the others.   *)
(* The code does not satisfy this: capitalize() lower-cases the "T".       *)
(***************************************************************************)
WantedTitle(folder) ==
    IF folder = GAME_THEORY THEN <<"G","a","m","e"," ","T","h","e","o","r","y">>
    ELSE IF folder = UTIL THEN <<"U","t","i","l","i","t","i","e","s">>
    ELSE IF folder = MARKOV THEN <<"M","a","r","k","o","v">>
    ELSE IF folder = RANDOM THEN <<"R","a","n","d","o","m">>
    ELSE <<"T","o","o","l","s">>

C2_FolderTitles ==
    (SplitRun /\ pc = "done") =>
        \A f \in FolderSet :
            files[FolderIndexPath(f)].name = WantedTitle(f)

(***************************************************************************)
(* C3: a process runs exactly one generator: all_auto if and only if       *)
(* "single" is among the arguments after the program name, model_tool      *)
(* otherwise; never both.                                                  *)
(***************************************************************************)
C3_ExactlyOneGenerator ==
    (pc \notin {"idle", "main"}) =>
        /\ called = IF \E i \in 2..Len(argv) : argv[i] = SINGLE
                    THEN <<"all_auto">> ELSE <<"model_tool">>
        /\ pc \in AllAutoPcs => FlatRun
        /\ pc \in ListingPcs \cup WritingPcs => SplitRun

C3_Witness ==
    /\ pc = "done"
    /\ FlatRun
    /\ Len(argv) = 3
    /\ argv[2] # SINGLE

(***************************************************************************)
(* C4: in a split-layout run the five lists are in strict ascending        *)
(* case-sensitive order while the stubs and indexes are written, whatever  *)
(* order the directory listings came in, and each <group>.rst lists its    *)
(* entries in that order.                                                  *)
(***************************************************************************)
C4_ListsAscending ==
    (SplitRun /\ pc \in WritingPcs \cup {"done"}) =>
        \A f \in FolderSet :
            /\ Ascending(Members(f))
            /\ Range(Members(f)) = Discovered(f)
            /\ (pc = "done" /\ Members(f) # <<>>) =>
                   Entries(files[FolderIndexPath(f)].files) =
                       [i \in 1..Len(Members(f)) |->
                           f \o SLASH \o Members(f)[i]]

C4_Witness ==
    /\ SplitRun
    /\ pc = "done"
    /\ markov = <<<<"a","B">>, <<"a","a">>>>
    /\ Len(Entries(files[FolderIndexPath(MARKOV)].files)) = 2

(***************************************************************************)
(* C5, as claimed: after a successful split-layout run, from any prior     *)
(* output tree, source/<group>/ holds exactly one stub per discovered      *)
(* member and no other stub.                                               *)
(***************************************************************************)
C5_ExactlyTheMembersStubs ==
    (SplitRun /\ pc = "done") =>
        \A f \in FolderSet : StubsIn(files, f) = ExpectedStubs(f)

(***************************************************************************)
(* C5, amended: after a successful split-layout run source/<group>/ holds  *)
(* a freshly written stub per discovered member, and every other file in   *)
(* it was there before the run and is left as it was; the run writes no    *)
(* source/tools/version.rst.                                               *)
(***************************************************************************)
C5_MembersStubsAndStaleOnes ==
    (SplitRun /\ pc = "done") =>
        /\ \A f \in FolderSet :
              /\ StubsIn(files, f) = StubsIn(files0, f) \cup ExpectedStubs(f)
              /\ \A m \in Discovered(f) :
                     /\ files[StubPath(f, m)].name = m
                     /\ files[StubPath(f, m)].equals = Repeat("=", Len(m))
              /\ \A p \in StubsIn(files0, f) \ ExpectedStubs(f) :
                     files[p] = files0[p]
        /\ StubPath(TOOLS, VERSION) \notin DOMAIN files

C5_Witness ==
    /\ SplitRun
    /\ pc = "done"
    /\ \E f \in FolderSet : StubsIn(files, f) \ ExpectedStubs(f) # {}
    /\ tools # <<>>

(***************************************************************************)
(* C6, as claimed: in the flat layout the list of module names all_auto    *)
(* processes does not contain "version".                                   *)
(***************************************************************************)
FlatListed == FlatRun /\ pc \in (AllAutoPcs \cup {"done", "aborted"}) \ {"all_auto"}

FlatNames == [i \in 1..Len(mod_names) |-> SplitFirstDot(mod_names[i])]

C6_FlatListExcludesVersion == FlatListed => ~InList(VERSION, FlatNames)

(***************************************************************************)
(* C6, amended: all_auto excludes nothing: its list holds every module     *)
(* found in the source root, "version" among them exactly when version.py  *)
(* is there (only model_tool's tools list drops it).                       *)
(***************************************************************************)
C6_FlatListKeepsVersion ==
    FlatListed =>
        /\ InList(VERSION, FlatNames) <=> VERSION_PY \in src[QUANTECON]
        /\ Range(mod_names) = {n \in Listing(QUANTECON) : Matches(n)}

C6_Witness ==
    /\ FlatListed
    /\ pc = "aborted"
    /\ Len(mod_names) >= 2
    /\ InList(VERSION_PY, mod_names)

(***************************************************************************)
(* C7: model_tool run a second time on an unchanged source tree leaves     *)
(* every output file with the content the first run wrote and creates no   *)
(* file or directory.                                                      *)
(***************************************************************************)
C7_RerunChangesNothing ==
    (SplitRun /\ rerun /\ pc = "done") => (files = files0 /\ dirs = dirs0)

C7_Witness ==
    /\ SplitRun
    /\ rerun
    /\ pc = "done"
    /\ \E f \in FolderSet : Len(Members(f)) >= 2

(***************************************************************************)
(* C8: a process given "single" writes only inside source/modules/ and to  *)
(* source/index.rst: in every state of the run, completed or aborted, the  *)
(* group directories and the <group>.rst files are as they were.           *)
(***************************************************************************)
FlatMayWrite(p) == p = IndexPath \/ Inside(p, MODULES)

C8_FlatTouchesOnlyModules ==
    FlatRun =>
        /\ dirs0 \subseteq dirs
        /\ dirs \ dirs0 \subseteq {SOURCE, source_join(MODULES)}
        /\ DOMAIN files0 \subseteq DOMAIN files
        /\ \A p \in DOMAIN files :
               ~FlatMayWrite(p) => (p \in DOMAIN files0 /\ files[p] = files0[p])

C8_Witness ==
    /\ FlatRun
    /\ pc = "aborted"
    /\ files # files0
    /\ StubsIn(files0, TOOLS) # {}
    /\ FolderIndexPath(TOOLS) \in DOMAIN files0

(***************************************************************************)
(* C9: a split-layout run that finds no "version" at the package root      *)
(* (a missing or empty root included) aborts with an unhandled error       *)
(* before it creates a directory or writes a file: the output tree stays   *)
(* as it was.                                                              *)
(***************************************************************************)
C9_NoVersionAbortsBeforeWriting ==
    (SplitRun /\ pc # "idle" /\ VERSION \notin
         {DropLast3(n) : n \in {f \in Listing(QUANTECON) : Matches(f)}}) =>
        /\ pc \in {"model_tool", "aborted"}
        /\ pc = "aborted" => exc = "ValueError"
        /\ files = files0
        /\ dirs = dirs0

C9_Witness ==
    /\ SplitRun
    /\ pc = "aborted"
    /\ exc = "ValueError"
    /\ VERSION_PY \notin src[QUANTECON]
    /\ files0 # <<>>

(***************************************************************************)
(* C10: the toctree of <group>.rst holds exactly one entry                 *)
(* <group>/<member> per member; a group without members gets a toctree     *)
(* without entries.  The code does not satisfy this: for an empty group    *)
(* it writes the entry "<group>/".                                         *)
(***************************************************************************)
C10_FolderToctreeListsMembers ==
    (SplitRun /\ pc = "done") =>
        \A f \in FolderSet :
            Entries(files[FolderIndexPath(f)].files) =
                [i \in 1..Len(Members(f)) |-> f \o SLASH \o Members(f)[i]]

====
